---- MODULE Spec2Model ----
(***************************************************************************)
(* Cloud instance groups of a kops cluster on GCE: discovery of the        *)
(* InstanceGroupManagers (MIGs) backing the declared instance groups       *)
(* (getCloudGroups, matchInstanceGroup) and ordered deletion of a MIG and  *)
(* its InstanceTemplate (deleteCloudInstanceGroup).                        *)
(*                                                                         *)
(* Strings that the code takes apart or builds (names, zones) are          *)
(* sequences of one-character strings; opaque references (template         *)
(* self-links, instance URLs) are plain strings.  An error is the chain of *)
(* its messages, outermost first; the empty chain is Go's nil error.       *)
(***************************************************************************)
EXTENDS Naturals, Sequences, FiniteSets, TLC

\* ------------------------------------------------------------------ bounds
MaxIGs == 2          \* longest list of declared instance groups
MaxInstances == 2    \* most instances alive in the project at once
MaxDeletes == 2      \* DeleteGroup calls per caller
MaxEtcd == 2         \* most etcd clusters of a cluster spec
MaxBuilds == 2       \* BuildOptions calls on one cluster spec

\* ------------------------------------------------------------- the universe
ZoneY == <<"y">>
ZoneZ == <<"z">>
AllZones == {ZoneY, ZoneZ}

\* the cluster (kops.Cluster): only ObjectMeta.Name is read
Cluster == [Name |-> <<"c">>]

\* names the declared instance groups may carry
IGNames == { <<"a", ".", "b">>, <<"a", "-", "b">>, <<"n">> }

\* InstanceTemplate self-links; "tx" belongs to another cluster
TemplateRefs == {"t1", "t2", "tx"}
ForeignTemplates == {"tx"}

NoErr == <<>>
Err(msg, arg) == << [msg |-> msg, arg |-> arg] >>

\* ------------------------------------------------------------------- names
\* GCE does not support '.' in names: every '.' becomes '-'
SafeClusterName(clusterName) ==
  [i \in 1..Len(clusterName) |->
     IF clusterName[i] = "." THEN "-" ELSE clusterName[i]]

SafeObjectName(name, clusterName) ==
  SafeClusterName(name \o <<"-">> \o clusterName)

NameForInstanceGroupManager(c, ig, zone) ==
  SafeObjectName(zone \o <<".">> \o ig.Name, c.Name)

\* ---------------------------------------------------- the provider's objects
\* compute.InstanceGroupManager: the fields the code reads
MIG(zone, igName, tmpl, size) ==
  [Name |-> NameForInstanceGroupManager(Cluster, [Name |-> igName], zone),
   Zone |-> zone, InstanceTemplate |-> tmpl, TargetSize |-> size]

\* The groups that may be alive.  As kops creates them, one InstanceTemplate
\* per instance group serves the MIG of every zone: m1 and m2 share "t1".
m1 == MIG(ZoneY, <<"a", ".", "b">>, "t1", 3)
m2 == MIG(ZoneZ, <<"a", ".", "b">>, "t1", 1)
m3 == MIG(ZoneZ, <<"n">>, "t2", 2)
m4 == MIG(ZoneY, <<"n">>, "tx", 0)
MIGsOfZone(z) == IF z = ZoneY THEN {m1, m4} ELSE {m2, m3}
AllMIGs == {m1, m2, m3, m4}

NoMIG == [Name |-> <<>>, Zone |-> <<>>, InstanceTemplate |-> "", TargetSize |-> 0]

\* compute.ManagedInstance: Instance (URL), Id, and Version (nil, or the
\* template the instance was made from); Mig names the group that owns it.
NoVersion == [IsNil |-> TRUE, InstanceTemplate |-> ""]
VersionOf(t) == [IsNil |-> FALSE, InstanceTemplate |-> t]
AllInstances ==
  { [Instance |-> "i1", Id |-> 7,  Version |-> VersionOf("t1"), Mig |-> m1.Name],
    [Instance |-> "i2", Id |-> 12, Version |-> NoVersion,       Mig |-> m1.Name],
    [Instance |-> "i3", Id |-> 70, Version |-> VersionOf("t2"), Mig |-> m1.Name],
    [Instance |-> "i4", Id |-> 7,  Version |-> VersionOf("t1"), Mig |-> m3.Name] }

Callers == {"w1", "w2"}
ErrCodes == {"denied", "timeout"}

VARIABLES
  templates,   \* the InstanceTemplates that exist in the project
  zones,       \* what c.Zones() answers
  migPages,    \* zone -> the pages InstanceGroupManagers.List answers
  instances,   \* the managed instances of the project, in listing order
  del,         \* caller -> its DeleteGroup call: position, argument, result
  disc,        \* the last GetCloudGroups call: arguments and result
  opts         \* the cluster spec BuildOptions works on, and how it began

vars == <<templates, zones, migPages, instances, del, disc, opts>>
provider == <<templates, zones, migPages, instances>>

\* ------------------------------------------------------------ the provider
RECURSIVE Flatten(_)
Flatten(pages) ==
  IF pages = <<>> THEN <<>> ELSE Head(pages) \o Flatten(Tail(pages))

Range(s) == { s[i] : i \in DOMAIN s }

LiveMIGsIn(pages) == UNION { Range(Flatten(pages[z])) : z \in DOMAIN pages }
LiveMIGs == LiveMIGsIn(migPages)

\* InstanceGroupManagers.Delete took effect: the group and its instances go
RemoveMIG(pages, mig) ==
  [z \in DOMAIN pages |->
     [k \in DOMAIN pages[z] |->
        SelectSeq(pages[z][k], LAMBDA m : m.Name # mig.Name)]]

RemoveInstancesOf(insts, mig) == SelectSeq(insts, LAMBDA i : i.Mig # mig.Name)

\* DeleteInstanceGroupManager(c, mig): a fallible remote call.  It answers nil
\* and the group is gone afterwards, or an error and nothing has changed.
DeleteInstanceGroupManager(p, err) ==
  /\ migPages' = IF err = NoErr THEN RemoveMIG(migPages, del[p].mig) ELSE migPages
  /\ instances' = IF err = NoErr THEN RemoveInstancesOf(instances, del[p].mig)
                  ELSE instances
  /\ UNCHANGED <<templates, zones>>

\* DeleteInstanceTemplate(c, selfLink): likewise, for the template
DeleteInstanceTemplate(selfLink, err) ==
  /\ templates' = IF err = NoErr THEN templates \ {selfLink} ELSE templates
  /\ UNCHANGED <<zones, migPages, instances>>

\* ---------------------------------------------------------------- deletion
NoDelete == [pc |-> "idle", mig |-> NoMIG, err |-> NoErr, calls |-> <<>>, n |-> 0]

Called(op, arg, err) == [op |-> op, arg |-> arg, err |-> err]

\* mig := g.Raw.(*compute.InstanceGroupManager)
deleteCloudInstanceGroup(d, g) ==
  [pc |-> "DeleteInstanceGroupManager", mig |-> g.Raw, err |-> NoErr,
   calls |-> <<>>, n |-> d.n + 1]

\* (mutant) the error of the group deletion is not looked at
afterDeleteInstanceGroupManager_ignoresError(d, err) ==
  [d EXCEPT !.pc = "DeleteInstanceTemplate",
            !.calls = Append(d.calls,
                Called("DeleteInstanceGroupManager", d.mig.Name, err))]

\* err := DeleteInstanceGroupManager(c, mig); if err != nil { return err }
afterDeleteInstanceGroupManager(d, err) ==
  LET log == Append(d.calls, Called("DeleteInstanceGroupManager", d.mig.Name, err))
  IN  IF err # NoErr
        THEN [d EXCEPT !.pc = "done", !.err = err, !.calls = log]
        ELSE [d EXCEPT !.pc = "DeleteInstanceTemplate", !.calls = log]

\* (mutant) the error of the template deletion is swallowed
afterDeleteInstanceTemplate_dropsError(d, err) ==
  [d EXCEPT !.pc = "done", !.err = NoErr,
            !.calls = Append(d.calls,
                Called("DeleteInstanceTemplate", <<d.mig.InstanceTemplate>>, err))]

\* return DeleteInstanceTemplate(c, mig.InstanceTemplate)
afterDeleteInstanceTemplate(d, err) ==
  [d EXCEPT !.pc = "done", !.err = err,
            !.calls = Append(d.calls,
                Called("DeleteInstanceTemplate", <<d.mig.InstanceTemplate>>, err))]

\* a caller hands DeleteGroup a CloudInstanceGroup it holds (possibly of an
\* earlier pass); only g.Raw is read
DeleteGroup(p, g) ==
  /\ del[p].pc \in {"idle", "done"}
  /\ del[p].n < MaxDeletes
  /\ del' = [del EXCEPT ![p] = deleteCloudInstanceGroup(del[p], g)]
  /\ UNCHANGED <<provider, disc, opts>>

DeleteStep1(p) ==
  /\ del[p].pc = "DeleteInstanceGroupManager"
  /\ \E err \in {NoErr} \cup { Err("DeleteInstanceGroupManager", <<c>>) : c \in ErrCodes } :
       /\ DeleteInstanceGroupManager(p, err)
       /\ del' = [del EXCEPT ![p] = afterDeleteInstanceGroupManager(del[p], err)]
  /\ UNCHANGED <<disc, opts>>

DeleteStep2(p) ==
  /\ del[p].pc = "DeleteInstanceTemplate"
  /\ \E err \in {NoErr} \cup { Err("DeleteInstanceTemplate", <<c>>) : c \in ErrCodes } :
       /\ DeleteInstanceTemplate(del[p].mig.InstanceTemplate, err)
       /\ del' = [del EXCEPT ![p] = afterDeleteInstanceTemplate(del[p], err)]
  /\ UNCHANGED <<disc, opts>>

NoDiscover == [called |-> FALSE]

\* no cluster spec under construction
NoClusterSpec == [ConfigBase |-> <<>>, EtcdClusters |-> <<>>]
NoOptions == [spec |-> NoClusterSpec, orig |-> NoClusterSpec, n |-> 0, err |-> NoErr]

\* the cloud the deletions start from: m1 and m2 share template t1
InitialPages == (ZoneY :> << <<m1, m4>> >>) @@ (ZoneZ :> << <<m2>>, <<m3>> >>)

InitDelete ==
  /\ templates = TemplateRefs
  /\ zones = <<ZoneY, ZoneZ>>
  /\ migPages = InitialPages
  /\ instances \in { <<>> }
  /\ del = [p \in Callers |-> NoDelete]
  /\ disc = NoDiscover
  /\ opts = NoOptions

NextDelete ==
  \/ \E p \in Callers : \E mig \in AllMIGs : DeleteGroup(p, [Raw |-> mig])
  \/ \E p \in Callers : DeleteStep1(p)
  \/ \E p \in Callers : DeleteStep2(p)

SpecDelete == InitDelete /\ [][NextDelete]_vars

\* --------------------------------------------------------------- discovery
\* kops.InstanceGroup: only ObjectMeta.Name is read; NoIG is the nil pointer
IG(name) == [Name |-> name]
NoIG == [Nil |-> TRUE]

\* v1.Node: its name and Spec.ExternalID; NoNode is the nil pointer
Node(name, externalID) == [Name |-> name, ExternalID |-> externalID]
NoNode == [Nil |-> TRUE]

\* the node lists a caller may pass: none, or nodes with the external ids
\* "7", "07" and "7" again
NodeLists ==
  { <<>>,
    << Node("n1", <<"7">>), Node("n2", <<"0", "7">>), Node("n3", <<"7">>) >> }

\* cloudinstances.GetNodeMap: external id -> node, a later node of the list
\* replacing an earlier one with the same id
RECURSIVE GetNodeMap(_)
GetNodeMap(nodes) ==
  IF nodes = <<>> THEN <<>>
  ELSE LET front == GetNodeMap(SubSeq(nodes, 1, Len(nodes) - 1))
           node  == nodes[Len(nodes)]
       IN  [id \in DOMAIN front \cup {node.ExternalID} |->
              IF id = node.ExternalID THEN node ELSE front[id]]

\* strconv.FormatUint(n, 10)
Digits == <<"0", "1", "2", "3", "4", "5", "6", "7", "8", "9">>
RECURSIVE FormatUint(_)
FormatUint(n) ==
  IF n < 10 THEN << Digits[n + 1] >>
  ELSE FormatUint(n \div 10) \o << Digits[(n % 10) + 1] >>

\* FindInstanceTemplates(c, cluster.Name): the self-links of the templates of
\* this cluster that exist
FindInstanceTemplates(c) == c.templates \ ForeignTemplates

\* ListManagedInstances(c, mig): the instances of the group, in listing order
ListManagedInstances(c, mig) ==
  SelectSeq(c.instances, LAMBDA i : i.Mig = mig.Name)

\* (mutant) more than one match is settled by taking the first
matchInstanceGroup_first(mig, c, instancegroups) ==
  LET matches == SelectSeq(instancegroups,
        LAMBDA ig : NameForInstanceGroupManager(c, ig, mig.Zone) = mig.Name)
  IN  IF Len(matches) = 0 THEN [ig |-> NoIG, err |-> NoErr]
      ELSE [ig |-> matches[1], err |-> NoErr]

matchInstanceGroup(mig, c, instancegroups) ==
  LET matches == SelectSeq(instancegroups,
        LAMBDA ig : NameForInstanceGroupManager(c, ig, mig.Zone) = mig.Name)
  IN  IF Len(matches) = 0 THEN [ig |-> NoIG, err |-> NoErr]
      ELSE IF Len(matches) # 1
        THEN [ig |-> NoIG,
              err |-> Err("found multiple instance groups matching MIG", mig.Name)]
      ELSE [ig |-> matches[1], err |-> NoErr]

\* what a pass has done so far: the local map groups, the error that ends the
\* page callback, the provider calls issued (calls counts them), the matcher
\* runs and the warnings, in order
Event(op, arg, err, ig) == [op |-> op, arg |-> arg, err |-> err, ig |-> ig]
NoPass == [groups |-> <<>>, err |-> NoErr, trace |-> <<>>, calls |-> 0]

\* the answer of the next provider call: the failAt-th call of a pass fails,
\* with an error of the provider's own that says nothing of zone or group
ProviderError == Err("provider error", <<>>)
CallErr(c, st, op, arg) ==
  IF st.calls + 1 = c.failAt THEN ProviderError ELSE NoErr

Call(c, st, op, arg) ==
  [st EXCEPT !.calls = st.calls + 1,
             !.trace = Append(st.trace, Event(op, arg, CallErr(c, st, op, arg), NoIG))]

Put(groups, name, g) ==
  [n \in DOMAIN groups \cup {name} |-> IF n = name THEN g ELSE groups[n]]

\* (mutant) an instance without a recorded version counts as up to date
IsReady_nilVersion(i, latestInstanceTemplate) ==
  i.Version.IsNil \/ latestInstanceTemplate = i.Version.InstanceTemplate

\* i.Version != nil && latestInstanceTemplate == i.Version.InstanceTemplate
IsReady(i, latestInstanceTemplate) ==
  ~ i.Version.IsNil /\ latestInstanceTemplate = i.Version.InstanceTemplate

\* (mutant) the id is looked up as two digits at least
NewMember_padded(i, nodesByExternalID) ==
  LET key == IF i.Id < 10 THEN <<"0">> \o FormatUint(i.Id) ELSE FormatUint(i.Id)
  IN  [ID |-> i.Instance,
       Node |-> IF key \in DOMAIN nodesByExternalID
                  THEN nodesByExternalID[key] ELSE NoNode]

\* cm := &CloudInstanceGroupMember{ID: i.Instance}, and cm.Node when
\* nodesByExternalID[strconv.FormatUint(i.Id, 10)] is not nil
NewMember(i, nodesByExternalID) ==
  LET key == FormatUint(i.Id)
  IN  [ID |-> i.Instance,
       Node |-> IF key \in DOMAIN nodesByExternalID
                  THEN nodesByExternalID[key] ELSE NoNode]

\* (mutant) the newest member goes to the front
RECURSIVE Classify_prepend(_, _, _, _)
Classify_prepend(g, insts, latestInstanceTemplate, nodesByExternalID) ==
  IF insts = <<>> THEN g
  ELSE LET i   == Head(insts)
           cm  == NewMember(i, nodesByExternalID)
           g1  == IF IsReady(i, latestInstanceTemplate)
                    THEN [g EXCEPT !.Ready = <<cm>> \o g.Ready]
                    ELSE [g EXCEPT !.NeedUpdate = <<cm>> \o g.NeedUpdate]
       IN  Classify_prepend(g1, Tail(insts), latestInstanceTemplate, nodesByExternalID)

\* the loop over the instances of one group
RECURSIVE Classify(_, _, _, _)
Classify(g, insts, latestInstanceTemplate, nodesByExternalID) ==
  IF insts = <<>> THEN g
  ELSE LET i   == Head(insts)
           cm  == NewMember(i, nodesByExternalID)
           g1  == IF IsReady(i, latestInstanceTemplate)
                    THEN [g EXCEPT !.Ready = Append(g.Ready, cm)]
                    ELSE [g EXCEPT !.NeedUpdate = Append(g.NeedUpdate, cm)]
       IN  Classify(g1, Tail(insts), latestInstanceTemplate, nodesByExternalID)

\* (mutant) the group is given no minimum size
NewCloudInstanceGroup_noMin(mig, ig) ==
  [HumanName |-> mig.Name, InstanceGroup |-> ig,
   MinSize |-> 0, MaxSize |-> mig.TargetSize,
   Raw |-> mig, Ready |-> <<>>, NeedUpdate |-> <<>>]

\* g := &cloudinstances.CloudInstanceGroup{...}
NewCloudInstanceGroup(mig, ig) ==
  [HumanName |-> mig.Name, InstanceGroup |-> ig,
   MinSize |-> mig.TargetSize, MaxSize |-> mig.TargetSize,
   Raw |-> mig, Ready |-> <<>>, NeedUpdate |-> <<>>]

\* (mutant) a group nobody declared fails the pass unless warnings are asked for
Unmatched_strict(st, name, warnUnmatched) ==
  IF warnUnmatched
    THEN [st EXCEPT !.trace = Append(st.trace, Event("Warning", name, NoErr, NoIG))]
    ELSE [st EXCEPT !.err = Err("no instance group for MIG", name)]

\* if ig == nil { if warnUnmatched { glog.Warningf(...) }; continue }
Unmatched(st, name, warnUnmatched) ==
  IF warnUnmatched
    THEN [st EXCEPT !.trace = Append(st.trace, Event("Warning", name, NoErr, NoIG))]
    ELSE st

\* (mutant) every group is taken for one of the cluster's
IsManaged_any(instanceTemplates, mig) == TRUE

\* instanceTemplates[mig.InstanceTemplate] != nil
IsManaged(instanceTemplates, mig) == mig.InstanceTemplate \in instanceTemplates

\* the body of the loop over page.Items, for one group
ProcessMIG(c, st, mig, a, instanceTemplates) ==
  LET name == mig.Name IN
  IF ~ IsManaged(instanceTemplates, mig) THEN st
  ELSE
    LET m   == matchInstanceGroup(mig, a.cluster, a.instancegroups)
        st1 == [st EXCEPT !.trace =
                  Append(st.trace, Event("matchInstanceGroup", name, m.err, m.ig))]
    IN  IF m.err # NoErr
          THEN [st1 EXCEPT !.err = Err("error getting instance group for MIG", name)]
        ELSE IF m.ig = NoIG THEN Unmatched(st1, name, a.warnUnmatched)
        ELSE
          LET g   == NewCloudInstanceGroup(mig, m.ig)
              st2 == [st1 EXCEPT !.groups = Put(st1.groups, mig.Name, g)]
              err == CallErr(c, st2, "ListManagedInstances", name)
              st3 == Call(c, st2, "ListManagedInstances", name)
          IN  IF err # NoErr THEN [st3 EXCEPT !.err = err]
              ELSE [st3 EXCEPT !.groups = Put(st3.groups, mig.Name,
                      Classify(g, ListManagedInstances(c, mig),
                               mig.InstanceTemplate, GetNodeMap(a.nodes)))]

\* the page callback: the groups of one page in order, until one ends it
RECURSIVE ProcessPage(_, _, _, _, _)
ProcessPage(c, st, items, a, instanceTemplates) ==
  IF items = <<>> \/ st.err # NoErr THEN st
  ELSE ProcessPage(c, ProcessMIG(c, st, Head(items), a, instanceTemplates),
                   Tail(items), a, instanceTemplates)

\* (mutant) only the first page of a zone is read
Pages_firstPage(c, st, zoneName, k, a, instanceTemplates) ==
  LET err == CallErr(c, st, "InstanceGroupManagers.List", zoneName)
      st1 == Call(c, st, "InstanceGroupManagers.List", zoneName)
  IN  IF err # NoErr THEN [st1 EXCEPT !.err = err]
      ELSE ProcessPage(c, st1, c.migPages[zoneName][k], a, instanceTemplates)

\* InstanceGroupManagers.List(project, zoneName).Pages(ctx, f): fetch a page,
\* hand it to f, go on while there is a next page; the first error ends it
RECURSIVE Pages(_, _, _, _, _, _)
Pages(c, st, zoneName, k, a, instanceTemplates) ==
  LET err == CallErr(c, st, "InstanceGroupManagers.List", zoneName)
      st1 == Call(c, st, "InstanceGroupManagers.List", zoneName)
  IN  IF err # NoErr THEN [st1 EXCEPT !.err = err]
      ELSE LET st2 == ProcessPage(c, st1, c.migPages[zoneName][k], a, instanceTemplates)
           IN  IF st2.err # NoErr \/ k = Len(c.migPages[zoneName]) THEN st2
               ELSE Pages(c, st2, zoneName, k + 1, a, instanceTemplates)

\* what getCloudGroups returns, with the pass that led to it
Returned(st, groups, isNil, err) ==
  [groups |-> groups, isNil |-> isNil, err |-> err,
   trace |-> st.trace, calls |-> st.calls, local |-> st.groups]

\* (mutant) the groups found so far are returned with the error
ReturnListError_partial(st) ==
  Returned(st, st.groups, FALSE, Err("error listing InstanceGroupManagers", <<>>) \o st.err)

\* return nil, fmt.Errorf("error listing InstanceGroupManagers: %v", err)
ReturnListError(st) ==
  Returned(st, <<>>, TRUE, Err("error listing InstanceGroupManagers", <<>>) \o st.err)

\* (mutant) a failed zone is reported only after the other zones were listed
RECURSIVE ZoneLoop_continues(_, _, _, _, _)
ZoneLoop_continues(c, st, zs, a, instanceTemplates) ==
  IF zs = <<>>
    THEN IF st.err # NoErr THEN ReturnListError(st)
         ELSE Returned(st, st.groups, FALSE, NoErr)
    ELSE ZoneLoop_continues(c, Pages(c, st, Head(zs), 1, a, instanceTemplates),
                            Tail(zs), a, instanceTemplates)

\* (mutant) the pass ends with the first zone
ZoneLoop_firstZone(c, st, zs, a, instanceTemplates) ==
  IF zs = <<>> THEN Returned(st, st.groups, FALSE, NoErr)
  ELSE LET st1 == Pages(c, st, Head(zs), 1, a, instanceTemplates)
       IN  IF st1.err # NoErr THEN ReturnListError(st1)
           ELSE Returned(st1, st1.groups, FALSE, NoErr)

\* the loop over the zones
RECURSIVE ZoneLoop(_, _, _, _, _)
ZoneLoop(c, st, zs, a, instanceTemplates) ==
  IF zs = <<>> THEN Returned(st, st.groups, FALSE, NoErr)
  ELSE LET st1 == Pages(c, st, Head(zs), 1, a, instanceTemplates)
       IN  IF st1.err # NoErr THEN ReturnListError(st1)
           ELSE ZoneLoop(c, st1, Tail(zs), a, instanceTemplates)

getCloudGroups(c, cluster, instancegroups, warnUnmatched, nodes) ==
  LET a   == [cluster |-> cluster, instancegroups |-> instancegroups,
              warnUnmatched |-> warnUnmatched, nodes |-> nodes]
      e1  == CallErr(c, NoPass, "FindInstanceTemplates", cluster.Name)
      st1 == Call(c, NoPass, "FindInstanceTemplates", cluster.Name)
  IN  IF e1 # NoErr THEN Returned(st1, <<>>, TRUE, e1)
      ELSE LET instanceTemplates == FindInstanceTemplates(c)
               e2  == CallErr(c, st1, "Zones", <<>>)
               st2 == Call(c, st1, "Zones", <<>>)
           IN  IF e2 # NoErr THEN Returned(st2, <<>>, TRUE, e2)
               ELSE ZoneLoop(c, st2, c.zones, a, instanceTemplates)

\* the cloud as a pass sees it; the failAt-th provider call of the pass fails
\* (0: none does)
Cloud(failAt) ==
  [templates |-> templates, zones |-> zones, migPages |-> migPages,
   instances |-> instances, failAt |-> failAt]

RECURSIVE SeqsUpTo(_, _)
SeqsUpTo(S, n) ==
  IF n = 0 THEN { <<>> }
  ELSE LET shorter == SeqsUpTo(S, n - 1)
       IN  shorter \cup { Append(s, x) : s \in shorter, x \in S }

IsInjective(s) == \A i, j \in DOMAIN s : s[i] = s[j] => i = j

\* the declared instance groups a caller may pass
IGLists == SeqsUpTo({ IG(n) : n \in IGNames }, MaxIGs)

\* the provider calls a pass makes when none fails
CallsOf(instancegroups) ==
  getCloudGroups(Cloud(0), Cluster, instancegroups, FALSE, <<>>).calls

\* (mutant) the pass clears away the templates of other clusters
GetCloudGroups_prunes(instancegroups, warnUnmatched, nodes) ==
  /\ ~ disc.called
  /\ \E failAt \in 0..CallsOf(instancegroups) :
       disc' = [called |-> TRUE, instancegroups |-> instancegroups,
                warnUnmatched |-> warnUnmatched, nodes |-> nodes, failAt |-> failAt,
                out |-> getCloudGroups(Cloud(failAt), Cluster, instancegroups,
                                       warnUnmatched, nodes)]
  /\ templates' = templates \ ForeignTemplates
  /\ UNCHANGED <<zones, migPages, instances, del, opts>>

\* one pass over the cloud as it is; any one of its provider calls may fail
GetCloudGroups(instancegroups, warnUnmatched, nodes) ==
  /\ ~ disc.called
  /\ \E failAt \in 0..CallsOf(instancegroups) :
       disc' = [called |-> TRUE, instancegroups |-> instancegroups,
                warnUnmatched |-> warnUnmatched, nodes |-> nodes, failAt |-> failAt,
                out |-> getCloudGroups(Cloud(failAt), Cluster, instancegroups,
                                       warnUnmatched, nodes)]
  /\ UNCHANGED <<provider, del, opts>>

RECURSIVE Paginate(_, _)
Paginate(items, size) ==
  IF Len(items) <= size THEN << items >>
  ELSE << SubSeq(items, 1, size) >> \o Paginate(SubSeq(items, size + 1, Len(items)), size)

\* the groups of a zone in the order the provider lists them
ZoneOrder(z) == IF z = ZoneY THEN <<m1, m4>> ELSE <<m3, m2>>

InitDiscover ==
  /\ templates = TemplateRefs
  /\ zones \in { <<ZoneY, ZoneZ>>, <<ZoneZ, ZoneY>>, <<ZoneZ>> }
  /\ \E live \in SUBSET AllMIGs : \E size \in {1, 2} :
       migPages = [z \in AllZones |->
                     Paginate(SelectSeq(ZoneOrder(z), LAMBDA m : m \in live), size)]
  /\ instances \in { s \in SeqsUpTo(AllInstances, MaxInstances) :
                       /\ IsInjective(s)
                       /\ \A i \in DOMAIN s : \E m \in LiveMIGs : m.Name = s[i].Mig }
  /\ del = [p \in Callers |-> NoDelete]
  /\ disc = NoDiscover
  /\ opts = NoOptions

NextDiscover ==
  \E instancegroups \in IGLists : \E warnUnmatched \in BOOLEAN : \E nodes \in NodeLists :
    GetCloudGroups(instancegroups, warnUnmatched, nodes)

SpecDiscover == InitDiscover /\ [][NextDiscover]_vars

\* ------------------------------------------------------ deletion, retried
\* a caller whose DeleteGroup has returned calls it again for the same group;
\* n stops counting at MaxDeletes, the retries go on
DeleteAgain(p) ==
  /\ del[p].pc = "done"
  /\ del' = [del EXCEPT ![p] =
       [deleteCloudInstanceGroup(del[p], [Raw |-> del[p].mig])
          EXCEPT !.n = IF del[p].n < MaxDeletes THEN del[p].n + 1 ELSE MaxDeletes]]
  /\ UNCHANGED <<provider, disc, opts>>

\* a caller's first DeleteGroup
DeleteFirst(p, g) ==
  /\ del[p].pc = "idle"
  /\ DeleteGroup(p, g)

\* the template deletion may fail in a caller's first call; in its retries it
\* has stopped failing
RetryStep2(p) ==
  /\ DeleteStep2(p)
  /\ del[p].n > 1 => del'[p].err = NoErr

NextRetry ==
  \E p \in Callers :
    \/ \E mig \in AllMIGs : DeleteFirst(p, [Raw |-> mig])
    \/ DeleteAgain(p)
    \/ DeleteStep1(p)
    \/ RetryStep2(p)

\* every call that was made is answered, and a caller keeps retrying
SpecRetry ==
  /\ InitDelete
  /\ [][NextRetry]_vars
  /\ \A p \in Callers :
       WF_vars(DeleteAgain(p)) /\ WF_vars(DeleteStep1(p)) /\ WF_vars(RetryStep2(p))

\* ------------------------------------------------- etcd-manager options
\* A string that is taken apart or built (ConfigBase, BackupStore) is the
\* sequence of its pieces, "/" a piece of its own; <<>> is the empty string.
\* kops.EtcdClusterSpec: Name, Version, Manager (set or nil) and Backups (nil,
\* or an EtcdBackupSpec with its BackupStore)
NoBackups == [IsNil |-> TRUE, BackupStore |-> <<>>]
EtcdBackupSpec(store) == [IsNil |-> FALSE, BackupStore |-> store]

\* urls.Join(base, other...): each piece goes after a "/", which is added
\* unless the text so far ends in one
RECURSIVE Join(_, _)
Join(base, other) ==
  IF other = <<>> THEN base
  ELSE LET u == IF base # <<>> /\ base[Len(base)] = "/" THEN base
                ELSE Append(base, "/")
       IN  Join(IF Head(other) = "" THEN u ELSE Append(u, Head(other)), Tail(other))

\* (mutant) the version is set whatever it was
etcdClusterOptions_setsVersion(etcdCluster, base) ==
  LET e1 == [etcdCluster EXCEPT !.Version = "2.2.1"]
      e2 == IF e1.Manager /\ e1.Backups.IsNil
              THEN [e1 EXCEPT !.Backups = EtcdBackupSpec(<<>>)] ELSE e1
  IN  IF e2.Manager /\ e2.Backups.BackupStore = <<>>
        THEN [e2 EXCEPT !.Backups.BackupStore =
                Join(base, <<"backups", "etcd", e2.Name>>)]
        ELSE e2

\* the body of the loop over clusterSpec.EtcdClusters
etcdClusterOptions(etcdCluster, base) ==
  LET e1 == IF etcdCluster.Version = ""
              THEN [etcdCluster EXCEPT !.Version = "2.2.1"] ELSE etcdCluster
      e2 == IF e1.Manager /\ e1.Backups.IsNil
              THEN [e1 EXCEPT !.Backups = EtcdBackupSpec(<<>>)] ELSE e1
  IN  IF e2.Manager /\ e2.Backups.BackupStore = <<>>
        THEN [e2 EXCEPT !.Backups.BackupStore =
                Join(base, <<"backups", "etcd", e2.Name>>)]
        ELSE e2

\* EtcdManagerOptionsBuilder.BuildOptions: the cluster spec afterwards, and
\* the error returned
BuildOptions(clusterSpec) ==
  [spec |-> [clusterSpec EXCEPT !.EtcdClusters =
               [i \in DOMAIN clusterSpec.EtcdClusters |->
                  etcdClusterOptions(clusterSpec.EtcdClusters[i], clusterSpec.ConfigBase)]],
   err |-> NoErr]

\* the etcd clusters and cluster specs the options are built for
EtcdClusterSpecs ==
  [Name : {"main", "events"}, Version : {"", "3.0.17"}, Manager : BOOLEAN,
   Backups : {NoBackups, EtcdBackupSpec(<<>>), EtcdBackupSpec(<<"gs://x">>)}]
ClusterSpecs ==
  [ConfigBase : { <<>>, <<"s3://b">>, <<"s3://b", "/">> },
   EtcdClusters : SeqsUpTo(EtcdClusterSpecs, MaxEtcd)]

BuildOptionsCall ==
  /\ opts.n < MaxBuilds
  /\ opts' = [spec |-> BuildOptions(opts.spec).spec, orig |-> opts.orig,
              n |-> opts.n + 1, err |-> BuildOptions(opts.spec).err]
  /\ UNCHANGED <<provider, del, disc>>

InitOptions ==
  /\ templates = TemplateRefs
  /\ zones = <<ZoneY, ZoneZ>>
  /\ migPages = InitialPages
  /\ instances = <<>>
  /\ del = [p \in Callers |-> NoDelete]
  /\ disc = NoDiscover
  /\ \E clusterSpec \in ClusterSpecs :
       opts = [spec |-> clusterSpec, orig |-> clusterSpec, n |-> 0, err |-> NoErr]

NextOptions == BuildOptionsCall

SpecOptions == InitOptions /\ [][NextOptions]_vars

\* ------------------------------------------------------- claims on deletion
IsLive(mig) == \E m \in LiveMIGs : m.Name = mig.Name

\* C1: within one DeleteGroup call the template deletion is issued only
\* directly after a group deletion that answered nil; when the group deletion
\* answers an error the call is over, has made no other provider call, and
\* returns exactly that error.
C1_TemplateOnlyAfterGroup ==
  \A p \in Callers :
    LET d == del[p] IN
    /\ \A i \in DOMAIN d.calls :
         d.calls[i].op = "DeleteInstanceTemplate" =>
           /\ i = 2
           /\ d.calls[1].op = "DeleteInstanceGroupManager"
           /\ d.calls[1].err = NoErr
    /\ d.pc = "DeleteInstanceTemplate" =>
         /\ Len(d.calls) = 1
         /\ d.calls[1].op = "DeleteInstanceGroupManager"
         /\ d.calls[1].err = NoErr
    /\ (d.calls # <<>> /\ d.calls[1].err # NoErr) =>
         /\ d.pc = "done"
         /\ Len(d.calls) = 1
         /\ d.err = d.calls[1].err

\* a DeleteGroup on a live group whose group deletion failed
C1_Witness ==
  \E p \in Callers :
    /\ del[p].pc = "done"
    /\ Len(del[p].calls) = 1
    /\ del[p].calls[1].err = Err("DeleteInstanceGroupManager", <<"denied">>)
    /\ del[p].err = del[p].calls[1].err
    /\ IsLive(del[p].mig)
    /\ del[p].mig.InstanceTemplate \in templates

\* C2: no step removes a template that a live group references.
C2_NoReferencedTemplateDeleted ==
  [][\A t \in templates \ templates' :
       \A m \in LiveMIGs : m.InstanceTemplate # t]_vars

\* the step of a DeleteGroup call in which a failed template deletion follows
\* a successful group deletion
TemplateStepFailed(p) ==
  /\ Len(del[p].calls) = 1
  /\ Len(del'[p].calls) = 2
  /\ del'[p].calls[1].err = NoErr
  /\ del'[p].calls[2].err # NoErr

\* C3 as stated: after that step the call has returned the template error,
\* the group is gone and the template is present.
C3_TemplateStillPresent ==
  [][\A p \in Callers :
       TemplateStepFailed(p) =>
         /\ del'[p].pc = "done"
         /\ del'[p].err = del'[p].calls[2].err
         /\ ~ (IsLive(del[p].mig))'
         /\ del[p].mig.InstanceTemplate \in templates']_vars

\* C3 as amended: after that step the call has returned the template error,
\* the group is gone and the template is as the failed call found it: present
\* if it was present, and nothing else of the provider has changed.
C3_TemplateFailureReported ==
  [][\A p \in Callers :
       TemplateStepFailed(p) =>
         /\ del'[p].pc = "done"
         /\ del'[p].err = del'[p].calls[2].err
         /\ del'[p].calls[2].op = "DeleteInstanceTemplate"
         /\ ~ (IsLive(del[p].mig))'
         /\ UNCHANGED provider]_vars

\* a call that ended with the group gone, the template error returned and the
\* template still there
C3_Witness ==
  \E p \in Callers :
    /\ del[p].pc = "done"
    /\ Len(del[p].calls) = 2
    /\ del[p].calls[1].err = NoErr
    /\ del[p].err = Err("DeleteInstanceTemplate", <<"timeout">>)
    /\ ~ IsLive(del[p].mig)
    /\ del[p].mig.InstanceTemplate \in templates

\* p's last call deleted the group and failed on the template
TemplateDebt(p) ==
  /\ del[p].pc = "done"
  /\ Len(del[p].calls) = 2
  /\ del[p].calls[1].err = NoErr
  /\ del[p].calls[2].err # NoErr

Converged(p) ==
  /\ ~ IsLive(del[p].mig)
  /\ del[p].mig.InstanceTemplate \notin templates

\* C12: from a call that deleted the group and failed on the template, the
\* retries lead to the group and its template both being absent, and no group
\* or template that was deleted is there again.
C12_RetryConverges ==
  /\ \A p \in Callers : TemplateDebt(p) ~> Converged(p)
  /\ [][templates' \subseteq templates /\ LiveMIGs' \subseteq LiveMIGs]_vars

\* the provider, as a value: what is live now and what was live at the start
CloudNow == [templates |-> templates, migPages |-> migPages, instances |-> instances]
InitialCloud == [templates |-> TemplateRefs, migPages |-> InitialPages, instances |-> <<>>]

\* one whole DeleteGroup(mig) run alone on cloud, its group deletion answering
\* e1 and its template deletion, if it comes to it, e2
SerialDelete(cloud, mig, e1, e2) ==
  LET d0 == deleteCloudInstanceGroup(NoDelete, [Raw |-> mig])
      d1 == afterDeleteInstanceGroupManager(d0, e1)
      c1 == IF e1 = NoErr
              THEN [cloud EXCEPT !.migPages = RemoveMIG(@, mig),
                                 !.instances = RemoveInstancesOf(@, mig)]
              ELSE cloud
  IN  IF d1.pc = "done" THEN [cloud |-> c1, err |-> d1.err]
      ELSE [cloud |-> IF e2 = NoErr
                        THEN [c1 EXCEPT !.templates = @ \ {mig.InstanceTemplate}]
                        ELSE c1,
            err |-> afterDeleteInstanceTemplate(d1, e2).err]

Answers(op) == {NoErr} \cup { Err(op, <<c>>) : c \in ErrCodes }

\* the two callers are in or past their first DeleteGroup, on different groups
TwoDeletes ==
  /\ \A p \in Callers : del[p].n = 1
  /\ del["w1"].mig.Name # del["w2"].mig.Name

\* C13: with two DeleteGroup calls on different groups under way, neither has
\* issued its template deletion before its own group deletion answered nil;
\* and when both have returned, the provider and the two errors returned are
\* those of running one call after the other, in some order.
C13_ConcurrentDeletesSerializable ==
  TwoDeletes =>
    /\ \A p \in Callers :
         /\ del[p].pc = "DeleteInstanceTemplate" =>
              /\ Len(del[p].calls) = 1
              /\ del[p].calls[1] = Called("DeleteInstanceGroupManager", del[p].mig.Name, NoErr)
         /\ Len(del[p].calls) = 2 =>
              /\ del[p].calls[1] = Called("DeleteInstanceGroupManager", del[p].mig.Name, NoErr)
              /\ del[p].calls[2].op = "DeleteInstanceTemplate"
              /\ del[p].calls[2].arg = <<del[p].mig.InstanceTemplate>>
         /\ Len(del[p].calls) <= 2
    /\ (\A p \in Callers : del[p].pc = "done") =>
         \E p, q \in Callers :
           /\ p # q
           /\ \E e1, f1 \in Answers("DeleteInstanceGroupManager") :
              \E e2, f2 \in Answers("DeleteInstanceTemplate") :
                LET s1 == SerialDelete(InitialCloud, del[p].mig, e1, e2)
                    s2 == SerialDelete(s1.cloud, del[q].mig, f1, f2)
                IN  /\ s2.cloud = CloudNow
                    /\ s1.err = del[p].err
                    /\ s2.err = del[q].err

\* both calls have returned, on the two groups that share template t1, each
\* after its two provider calls, one of the template deletions having failed
C13_Witness ==
  /\ TwoDeletes
  /\ \A p \in Callers : del[p].pc = "done" /\ Len(del[p].calls) = 2
  /\ { del[p].mig : p \in Callers } = {m1, m2}
  /\ del["w1"].err = NoErr
  /\ del["w2"].err # NoErr
  /\ "t1" \notin templates

\* ------------------------------------------------------ claims on discovery
out == disc.out

\* the groups a pass is shown: those of every page of every zone c.Zones() names
ListedMIGs == UNION { Range(Flatten(migPages[zones[i]])) : i \in DOMAIN zones }

\* the group of that name
MIGNamed(name) == CHOOSE m \in AllMIGs : m.Name = name

\* the positions of the declared groups whose derived name, in the zone of the
\* live group, is the live group's name
Matching(mig, instancegroups) ==
  { i \in DOMAIN instancegroups :
      NameForInstanceGroupManager(Cluster, instancegroups[i], mig.Zone) = mig.Name }

\* the group's template is in the ownership index
Owned(mig) == mig.InstanceTemplate \in templates \ ForeignTemplates

Events(op) == { k \in DOMAIN out.trace : out.trace[k].op = op }
SomeCallFailed == \E k \in DOMAIN out.trace : out.trace[k].err # NoErr

\* C4: a pass that returns an error returns the nil map, whatever it had
\* gathered before.
C4_ErrorMeansNoMap ==
  disc.called => (out.err # NoErr => out.isNil /\ out.groups = <<>>)

\* a failed pass that had finished a group, members included, before failing
C4_Witness ==
  /\ disc.called
  /\ out.err # NoErr
  /\ \E n \in DOMAIN out.local : out.local[n].Ready # <<>>
  /\ out.isNil

\* C5: every run of the matcher answers by the number of declared groups that
\* derive the live group's name: none - nil and no error; one - that group and
\* no error; more - nil and an error.
C5_MatchCardinality ==
  disc.called =>
    \A k \in Events("matchInstanceGroup") :
      LET e   == out.trace[k]
          hit == Matching(MIGNamed(e.arg), disc.instancegroups)
      IN  /\ hit = {} => e.ig = NoIG /\ e.err = NoErr
          /\ Cardinality(hit) = 1 =>
               e.ig = disc.instancegroups[CHOOSE i \in hit : TRUE] /\ e.err = NoErr
          /\ Cardinality(hit) > 1 => e.ig = NoIG /\ e.err # NoErr

\* the matcher has run on a group that two declared groups of different names
\* derive
C5_Witness ==
  /\ disc.called
  /\ \E k \in Events("matchInstanceGroup") :
       /\ Matching(MIGNamed(out.trace[k].arg), disc.instancegroups) = {1, 2}
       /\ disc.instancegroups[1] # disc.instancegroups[2]
       /\ out.trace[k].err # NoErr

IDs(members) == { members[j].ID : j \in DOMAIN members }

\* C6: in every group of a successful pass the listed instances are exactly the
\* members, each once, in Ready when its recorded template is the group's
\* current one and in NeedUpdate otherwise.
C6_ReadyNeedUpdatePartition ==
  (disc.called /\ out.err = NoErr) =>
    \A n \in DOMAIN out.groups :
      LET g     == out.groups[n]
          insts == ListManagedInstances(Cloud(0), g.Raw)
      IN  /\ Len(g.Ready) + Len(g.NeedUpdate) = Len(insts)
          /\ IDs(g.Ready) \cup IDs(g.NeedUpdate) = { insts[k].Instance : k \in DOMAIN insts }
          /\ IDs(g.Ready) \cap IDs(g.NeedUpdate) = {}
          /\ \A k \in DOMAIN insts :
               insts[k].Instance \in IDs(g.Ready) <=>
                 /\ ~ insts[k].Version.IsNil
                 /\ insts[k].Version.InstanceTemplate = g.Raw.InstanceTemplate

\* a returned group with a current instance and one without a recorded version
C6_Witness ==
  /\ disc.called
  /\ out.err = NoErr
  /\ \E n \in DOMAIN out.groups :
       /\ IDs(out.groups[n].Ready) = {"i1"}
       /\ IDs(out.groups[n].NeedUpdate) = {"i2"}

\* C7: when the matcher fails on a group, the pass returns an error and no
\* map, and the error returned is the matcher's error or wraps it.
C7_AmbiguityErrorReturned ==
  disc.called =>
    \A k \in Events("matchInstanceGroup") :
      out.trace[k].err # NoErr =>
        /\ out.err # NoErr
        /\ out.isNil
        /\ \E j \in DOMAIN out.err :
             SubSeq(out.err, j, Len(out.err)) = out.trace[k].err

\* C8: the map of a successful pass has an entry for exactly the listed groups
\* with an owned template that exactly one declared group derives.
C8_AllPagesAllZones ==
  (disc.called /\ out.err = NoErr) =>
    DOMAIN out.groups =
      { m.Name : m \in { x \in ListedMIGs :
                           Owned(x) /\ Cardinality(Matching(x, disc.instancegroups)) = 1 } }

\* a map with the groups of two pages of one zone and a group of another zone
C8_Witness ==
  /\ disc.called
  /\ out.err = NoErr
  /\ Len(migPages[ZoneZ]) = 2
  /\ DOMAIN out.groups = {m1.Name, m2.Name, m3.Name}
  /\ m4 \in ListedMIGs

\* C9: a listed group whose template is not in the ownership index is not in
\* the map, the matcher is not run on it, its instances are not listed, and no
\* error comes from it: a pass fails only where a provider call or the matcher
\* on an owned group failed.
C9_UnownedSkipped ==
  disc.called =>
    /\ \A m \in ListedMIGs :
         ~ Owned(m) =>
           /\ m.Name \notin DOMAIN out.groups
           /\ m.Name \notin DOMAIN out.local
           /\ \A k \in DOMAIN out.trace : out.trace[k].arg # m.Name
    /\ out.err # NoErr => SomeCallFailed

\* a successful pass over a group with a foreign template that two declared
\* groups derive
C9_Witness ==
  /\ disc.called
  /\ out.err = NoErr
  /\ \E m \in ListedMIGs :
       ~ Owned(m) /\ Cardinality(Matching(m, disc.instancegroups)) = 2

\* C10: an owned group that no declared group derives is not in the map and
\* fails nothing, and the pass with the other value of warnUnmatched returns
\* the same map and the same error.
C10_WarnUnmatchedOnlyWarns ==
  disc.called =>
    LET other == getCloudGroups(Cloud(disc.failAt), Cluster, disc.instancegroups,
                                ~ disc.warnUnmatched, disc.nodes)
    IN  /\ other.groups = out.groups
        /\ other.isNil = out.isNil
        /\ other.err = out.err
        /\ \A m \in ListedMIGs :
             (Owned(m) /\ Matching(m, disc.instancegroups) = {}) =>
               m.Name \notin DOMAIN out.groups
        /\ out.err # NoErr => SomeCallFailed

\* a successful pass that warned about an owned group nobody declared and
\* returned another group
C10_Witness ==
  /\ disc.called
  /\ disc.warnUnmatched
  /\ out.err = NoErr
  /\ Events("Warning") # {}
  /\ out.groups # <<>>
  /\ \E m \in ListedMIGs :
       /\ Owned(m) /\ Matching(m, disc.instancegroups) = {}
       /\ \E k \in Events("Warning") : out.trace[k].arg = m.Name

\* some message of the error names arg
Mentions(err, arg) == \E j \in DOMAIN err : err[j].arg = arg

\* C11: the error a pass returns names the live group when the matcher failed
\* on it; when a provider call failed, the provider's error comes wrapped, with
\* the zone for a group listing and the group for an instance listing.
C11_ErrorsCarryContext ==
  disc.called =>
    \A k \in DOMAIN out.trace :
      LET e == out.trace[k] IN
      e.err # NoErr =>
        IF e.op = "matchInstanceGroup" THEN Mentions(out.err, e.arg)
        ELSE /\ Len(out.err) > 1
             /\ e.op \in {"InstanceGroupManagers.List", "ListManagedInstances"} =>
                  Mentions(out.err, e.arg)

\* C14: every entry of the map of a successful pass: its key names a listed
\* group; HumanName is the key, Raw that group, MinSize and MaxSize the
\* group's target size, and InstanceGroup the one declared group the matcher
\* found for it.
C14_EntryFields ==
  (disc.called /\ out.err = NoErr) =>
    \A n \in DOMAIN out.groups :
      LET g == out.groups[n] IN
      /\ g.HumanName = n
      /\ g.Raw \in ListedMIGs
      /\ g.Raw.Name = n
      /\ g.MinSize = g.Raw.TargetSize
      /\ g.MaxSize = g.Raw.TargetSize
      /\ \E i \in DOMAIN disc.instancegroups :
           /\ Matching(g.Raw, disc.instancegroups) = {i}
           /\ g.InstanceGroup = disc.instancegroups[i]
      /\ \E k \in Events("matchInstanceGroup") :
           /\ out.trace[k].arg = n
           /\ out.trace[k].ig = g.InstanceGroup

\* a map with the group of size 3 of one declared group and the group of size
\* 2 of another
C14_Witness ==
  /\ disc.called
  /\ out.err = NoErr
  /\ {m1.Name, m3.Name} \subseteq DOMAIN out.groups
  /\ out.groups[m1.Name].MinSize = 3
  /\ out.groups[m3.Name].MaxSize = 2
  /\ out.groups[m1.Name].InstanceGroup # out.groups[m3.Name].InstanceGroup

\* the number a string of digits writes
RECURSIVE DecimalValue(_)
DecimalValue(s) ==
  IF s = <<>> THEN 0
  ELSE 10 * DecimalValue(SubSeq(s, 1, Len(s) - 1))
         + (CHOOSE d \in 0..9 : Digits[d + 1] = s[Len(s)])

\* s is the decimal string of n: digits only, no leading zero, worth n
IsDecimalOf(s, n) ==
  /\ s # <<>>
  /\ \A j \in DOMAIN s : s[j] \in Range(Digits)
  /\ Len(s) > 1 => s[1] # "0"
  /\ DecimalValue(s) = n

Members(g) == g.Ready \o g.NeedUpdate
MemberIDs(members) == [j \in DOMAIN members |-> members[j].ID]

\* C15: in a successful pass each listed instance of a returned group has its
\* member, with the instance's identifier and with a node of the node list
\* whose external id is the decimal string of the instance's number - no node
\* when there is none; and with any other node list the pass returns the same
\* error and the same members in Ready and in NeedUpdate.
C15_MemberIdAndNode ==
  disc.called =>
    /\ out.err = NoErr =>
         \A n \in DOMAIN out.groups :
           LET g     == out.groups[n]
               insts == ListManagedInstances(Cloud(0), g.Raw)
           IN  \A k \in DOMAIN insts :
                 LET mine == { node \in Range(disc.nodes) :
                                 IsDecimalOf(node.ExternalID, insts[k].Id) }
                 IN  \E j \in DOMAIN Members(g) :
                       /\ Members(g)[j].ID = insts[k].Instance
                       /\ IF mine = {} THEN Members(g)[j].Node = NoNode
                          ELSE Members(g)[j].Node \in mine
    /\ \A nodes \in NodeLists \ {disc.nodes} :
         LET other == getCloudGroups(Cloud(disc.failAt), Cluster, disc.instancegroups,
                                     disc.warnUnmatched, nodes)
         IN  /\ other.err = out.err
             /\ DOMAIN other.groups = DOMAIN out.groups
             /\ \A n \in DOMAIN out.groups :
                  /\ MemberIDs(other.groups[n].Ready) = MemberIDs(out.groups[n].Ready)
                  /\ MemberIDs(other.groups[n].NeedUpdate) = MemberIDs(out.groups[n].NeedUpdate)

\* a group with instance 7 up to date, its node attached, and instance 12
\* without version and without node, among nodes "7" and "07"
C15_Witness ==
  /\ disc.called
  /\ out.err = NoErr
  /\ disc.nodes # <<>>
  /\ \E n \in DOMAIN out.groups :
       /\ \E j \in DOMAIN out.groups[n].Ready :
            /\ out.groups[n].Ready[j].ID = "i1"
            /\ out.groups[n].Ready[j].Node # NoNode
            /\ out.groups[n].Ready[j].Node.ExternalID = <<"7">>
       /\ \E j \in DOMAIN out.groups[n].NeedUpdate :
            /\ out.groups[n].NeedUpdate[j].ID = "i2"
            /\ out.groups[n].NeedUpdate[j].Node = NoNode

ZoneOrders == { zs \in [DOMAIN zones -> Range(zones)] : Range(zs) = Range(zones) }

\* the same cloud, its zones in the order zs and the groups of zone z in pages
\* of size[z]
Rearranged(zs, size) ==
  [templates |-> templates, zones |-> zs,
   migPages |-> [z \in DOMAIN migPages |-> Paginate(Flatten(migPages[z]), size[z])],
   instances |-> instances, failAt |-> 0]

\* C16: a successful pass returns the map - keys, declared groups, sizes, Ready
\* and NeedUpdate - that it returns with the zones in any other order and the
\* groups of each zone paged in any other way.
C16_ZoneOrderAndPagingIrrelevant ==
  (disc.called /\ out.err = NoErr) =>
    \A zs \in ZoneOrders : \A size \in [DOMAIN migPages -> {1, 2}] :
      LET other == getCloudGroups(Rearranged(zs, size), Cluster, disc.instancegroups,
                                  disc.warnUnmatched, disc.nodes)
      IN  /\ other.err = NoErr
          /\ other.groups = out.groups

\* a successful pass over two zones, the second one in two pages, with a group
\* returned from each zone
C16_Witness ==
  /\ disc.called
  /\ out.err = NoErr
  /\ zones = <<ZoneY, ZoneZ>>
  /\ Len(migPages[ZoneZ]) = 2
  /\ {m1.Name, m2.Name, m3.Name} \subseteq DOMAIN out.groups

ProviderCalls ==
  {"FindInstanceTemplates", "Zones", "InstanceGroupManagers.List", "ListManagedInstances"}

\* C18: a pass lists the templates once, as its first provider call, then the
\* zones, and only then groups and instances; which groups it takes for the
\* cluster's is settled by that one template listing throughout; and a
\* provider call that failed is the last thing the pass did.
C18_IndexFirstAndFailStop ==
  disc.called =>
    /\ out.trace # <<>>
    /\ Events("FindInstanceTemplates") = {1}
    /\ Events("Zones") \subseteq {2}
    /\ \A k \in DOMAIN out.trace :
         out.trace[k].op \in {"InstanceGroupManagers.List", "ListManagedInstances"} =>
           /\ k > 2
           /\ out.trace[1].err = NoErr
           /\ out.trace[2].op = "Zones"
           /\ out.trace[2].err = NoErr
    /\ \A k \in Events("matchInstanceGroup") :
         /\ k > 2
         /\ MIGNamed(out.trace[k].arg).InstanceTemplate \in FindInstanceTemplates(Cloud(0))
    /\ out.err = NoErr =>
         { out.trace[k].arg : k \in Events("matchInstanceGroup") } =
           { m.Name : m \in { x \in ListedMIGs :
                                x.InstanceTemplate \in FindInstanceTemplates(Cloud(0)) } }
    /\ \A k \in DOMAIN out.trace :
         (out.trace[k].op \in ProviderCalls /\ out.trace[k].err # NoErr) =>
           /\ k = Len(out.trace)
           /\ out.calls = disc.failAt

\* the listing of the first of two zones failed, after a group of that zone
\* and its instances had been listed
C18_Witness ==
  /\ disc.called
  /\ Len(zones) = 2
  /\ Len(out.trace) > 4
  /\ out.trace[Len(out.trace)].op = "InstanceGroupManagers.List"
  /\ out.trace[Len(out.trace)].arg = zones[1]
  /\ out.trace[Len(out.trace)].err # NoErr
  /\ Events("ListManagedInstances") # {}
  /\ LiveMIGsIn(migPages) \cap MIGsOfZone(zones[2]) # {}

\* C19: a pass, whether it succeeds or fails, only lists - templates, zones,
\* groups, instances - besides matching and warning; the templates, groups and
\* instances of the provider are afterwards what they were, and the declared
\* groups and nodes it returns are those it was given.
C19_ReadOnly ==
  [][ (~ disc.called /\ disc'.called) =>
        /\ provider' = provider
        /\ \A k \in DOMAIN disc'.out.trace :
             disc'.out.trace[k].op \in ProviderCalls \cup {"matchInstanceGroup", "Warning"}
        /\ \A n \in DOMAIN disc'.out.groups :
             /\ disc'.out.groups[n].InstanceGroup \in Range(disc'.instancegroups)
             /\ disc'.out.groups[n].Raw \in LiveMIGs'
             /\ \A j \in DOMAIN Members(disc'.out.groups[n]) :
                  Members(disc'.out.groups[n])[j].Node \in Range(disc'.nodes) \cup {NoNode}
    ]_vars

\* a pass over live groups with instances has failed, and another template,
\* all groups and all instances are still there
C19_Witness ==
  /\ disc.called
  /\ out.err # NoErr
  /\ disc.failAt > 2
  /\ instances # <<>>
  /\ Cardinality(LiveMIGs) > 1
  /\ templates = TemplateRefs

\* ---------------------------------------------- claims on etcd-manager options
\* the backup store the options give a cluster: the config base, a "/" unless
\* it ends in one, then backups/etcd/<name>
DefaultBackupStore(base, name) ==
  (IF base # <<>> /\ base[Len(base)] = "/" THEN base ELSE base \o <<"/">>)
    \o <<"backups", "/", "etcd", "/", name>>

\* C20: after one or more BuildOptions the spec is the original with only the
\* missing values filled in - Version "2.2.1" where it was empty; Backups and
\* its BackupStore where Manager is set and they were missing; all else as it
\* was - no error is returned, and one more BuildOptions changes nothing.
C20_OnlyFillsAndIdempotent ==
  opts.n >= 1 =>
    /\ opts.err = NoErr
    /\ opts.spec.ConfigBase = opts.orig.ConfigBase
    /\ DOMAIN opts.spec.EtcdClusters = DOMAIN opts.orig.EtcdClusters
    /\ \A i \in DOMAIN opts.orig.EtcdClusters :
         LET o == opts.orig.EtcdClusters[i]
             e == opts.spec.EtcdClusters[i]
         IN  /\ e.Name = o.Name
             /\ e.Manager = o.Manager
             /\ e.Version = IF o.Version = "" THEN "2.2.1" ELSE o.Version
             /\ ~ o.Manager => e.Backups = o.Backups
             /\ o.Manager =>
                  /\ ~ e.Backups.IsNil
                  /\ e.Backups.BackupStore =
                       IF o.Backups.IsNil \/ o.Backups.BackupStore = <<>>
                         THEN DefaultBackupStore(opts.orig.ConfigBase, o.Name)
                         ELSE o.Backups.BackupStore
    /\ BuildOptions(opts.spec).spec = opts.spec

\* options built twice for a spec with a managed cluster lacking version and
\* backups, and a cluster with its own version and no manager
C20_Witness ==
  /\ opts.n = 2
  /\ \E i, j \in DOMAIN opts.orig.EtcdClusters :
       /\ opts.orig.EtcdClusters[i].Version = ""
       /\ opts.orig.EtcdClusters[i].Manager
       /\ opts.orig.EtcdClusters[i].Backups.IsNil
       /\ opts.spec.EtcdClusters[i].Backups.BackupStore # <<>>
       /\ opts.orig.EtcdClusters[j].Version = "3.0.17"
       /\ ~ opts.orig.EtcdClusters[j].Manager
       /\ opts.spec.EtcdClusters[j] = opts.orig.EtcdClusters[j]

====
